---- MODULE Spec2Model ----
(***************************************************************************)
(* A model of extract_datetime.py: the filename parser, the folder reader, *)
(* the weekday/hour aggregator, the console reporters, the CSV export and  *)
(* the three chart writers, run as the script's main block runs them.      *)
(*                                                                         *)
(* Strings are sequences of Unicode code points (Python's str), so that    *)
(* matching, integer conversion, formatting and sorting are computed on    *)
(* characters as the code computes them.                                   *)
(***************************************************************************)
EXTENDS Integers, Sequences, FiniteSets, TLC

VARIABLES
    pad_year,       \* the platform's strftime: does %Y zero-pad to 4 digits
    path_kind,      \* what images_folder names: "missing", "file" or "dir"
    entries,        \* the directory's entries: a set of [name, isdir]
    outfiles,       \* output_dir: output file name -> content (or Absent)
    pc,             \* position of the run in the main block
    files,          \* read_images_from_folder: sorted names still to visit
    filename,       \* the name the parser is applied to
    datetime_info,  \* what the parser returned for it
    results,        \* the list of records (datetime_list)
    stdout,         \* the lines this run printed, in order
    run,            \* number of the current run of the script
    prev            \* what the previous run left: its pc, results, analysis

vars == <<pad_year, path_kind, entries, outfiles, pc, files, filename,
          datetime_info, results, stdout, run, prev>>

----------------------------------------------------------------------------
(* Bounds of the model.                                                    *)

MaxFiles == 3
MaxRuns == 2

----------------------------------------------------------------------------
(* Characters and strings.                                                 *)

\* Python's None.
None == [none |-> TRUE]

\* "ann-img_", the literal the pattern starts with.
PatternPrefix == <<97, 110, 110, 45, 105, 109, 103, 95>>

\* "-", the literal between the date code and the time code; also the
\* separator of '%Y-%m-%d'.
Hyphen == <<45>>

\* ":" of '%H:%M:%S' and " " of '%Y-%m-%d %H:%M:%S'.
Colon == <<58>>
Space == <<32>>

\* \d of a str pattern matches every Unicode decimal digit (category Nd),
\* not only 0-9; int() accepts the same characters. The model carries the
\* ASCII digits and one non-ASCII block, ARABIC-INDIC DIGIT ZERO..NINE.
AsciiDigits == 48..57
ArabicIndicDigits == 1632..1641

IsDigit(c) == c \in AsciiDigits \/ c \in ArabicIndicDigits

DigitValue(c) == IF c \in AsciiDigits THEN c - 48 ELSE c - 1632

\* int(s) of a string of decimal digits.
RECURSIVE IntOf(_)
IntOf(s) ==
    IF s = <<>> THEN 0
    ELSE 10 * IntOf(SubSeq(s, 1, Len(s) - 1)) + DigitValue(s[Len(s)])

\* str(n) for n >= 0: the decimal digits with no padding.
RECURSIVE Digits(_)
Digits(n) ==
    IF n < 10 THEN <<48 + n>>
    ELSE Digits(n \div 10) \o <<48 + (n % 10)>>

\* Zero-padding to a width, as %m %d %H %M %S do (width 2).
RECURSIVE ZeroPad(_, _)
ZeroPad(s, width) == IF Len(s) >= width THEN s ELSE ZeroPad(<<48>> \o s, width)

\* str comparison: by code point, a proper prefix first.
RECURSIVE StrLess(_, _)
StrLess(a, b) ==
    IF b = <<>> THEN FALSE
    ELSE IF a = <<>> THEN TRUE
    ELSE IF a[1] # b[1] THEN a[1] < b[1]
    ELSE StrLess(Tail(a), Tail(b))

----------------------------------------------------------------------------
(* datetime: the constructor's range checks, strftime, weekday().          *)

IsLeap(year) == year % 4 = 0 /\ (year % 100 # 0 \/ year % 400 = 0)

DaysInMonth(year, month) ==
    IF month = 2 THEN (IF IsLeap(year) THEN 29 ELSE 28)
    ELSE <<31, 28, 31, 30, 31, 30, 31, 31, 30, 31, 30, 31>>[month]

\* datetime(year, month, day, hour, minute, second) raises ValueError unless
\* every field is in range; MINYEAR is 1 and MAXYEAR 9999.
DatetimeRaises(year, month, day, hour, minute, second) ==
    ~ /\ 1 <= year /\ year <= 9999
      /\ 1 <= month /\ month <= 12
      /\ 1 <= day /\ day <= DaysInMonth(year, month)
      /\ 0 <= hour /\ hour <= 23
      /\ 0 <= minute /\ minute <= 59
      /\ 0 <= second /\ second <= 59

\* %Y: the C library's. glibc prints the year unpadded, other platforms pad
\* it to four digits; pad is which of the two this platform does.
FormatYear(year, pad) == IF pad THEN ZeroPad(Digits(year), 4) ELSE Digits(year)

\* dt.strftime('%Y-%m-%d')
StrftimeDate(dt, pad) ==
    FormatYear(dt.year, pad) \o Hyphen \o ZeroPad(Digits(dt.month), 2)
        \o Hyphen \o ZeroPad(Digits(dt.day), 2)

\* dt.strftime('%H:%M:%S')
StrftimeTime(dt) ==
    ZeroPad(Digits(dt.hour), 2) \o Colon \o ZeroPad(Digits(dt.minute), 2)
        \o Colon \o ZeroPad(Digits(dt.second), 2)

\* item['datetime'].strftime('%Y-%m-%d %H:%M:%S')
StrftimeDatetime(dt, pad) ==
    FormatYear(dt.year, pad) \o Hyphen \o ZeroPad(Digits(dt.month), 2)
        \o Hyphen \o ZeroPad(Digits(dt.day), 2) \o Space
        \o ZeroPad(Digits(dt.hour), 2) \o Colon \o ZeroPad(Digits(dt.minute), 2)
        \o Colon \o ZeroPad(Digits(dt.second), 2)

\* Days in the years before `year` and in the months before `month`.
DaysBeforeYear(year) ==
    LET y == year - 1 IN y * 365 + (y \div 4) - (y \div 100) + (y \div 400)

RECURSIVE DaysBeforeMonth(_, _)
DaysBeforeMonth(year, month) ==
    IF month = 1 THEN 0
    ELSE DaysBeforeMonth(year, month - 1) + DaysInMonth(year, month - 1)

\* dt.weekday(): 0 is Monday, 6 is Sunday; 0001-01-01 (ordinal 1) is a Monday.
Weekday(dt) ==
    (DaysBeforeYear(dt.year) + DaysBeforeMonth(dt.year, dt.month) + dt.day + 6) % 7

----------------------------------------------------------------------------
(* extract_datetime_from_filename                                          *)

\* The pattern without its '-' between the two codes.
ReMatchAnySeparator(name) ==
    /\ Len(name) >= 23
    /\ SubSeq(name, 1, 8) = PatternPrefix
    /\ \A i \in 9..16 : IsDigit(name[i])
    /\ \A i \in 18..23 : IsDigit(name[i])

\* re.match(r'ann-img_(\d{8})-(\d{6})', filename): anchored at position 0,
\* nothing required after the time code.
ReMatch(name) ==
    /\ Len(name) >= 23
    /\ SubSeq(name, 1, 8) = PatternPrefix
    /\ \A i \in 9..16 : IsDigit(name[i])
    /\ SubSeq(name, 17, 17) = Hyphen
    /\ \A i \in 18..23 : IsDigit(name[i])

\* match.group(1) and match.group(2)
DateCode(name) == SubSeq(name, 9, 16)
TimeCode(name) == SubSeq(name, 18, 23)

\* The fields the try block decodes.
DecodedFields(name) ==
    [year   |-> IntOf(SubSeq(DateCode(name), 1, 4)),
     month  |-> IntOf(SubSeq(DateCode(name), 5, 6)),
     day    |-> IntOf(SubSeq(DateCode(name), 7, 8)),
     hour   |-> IntOf(SubSeq(TimeCode(name), 1, 2)),
     minute |-> IntOf(SubSeq(TimeCode(name), 3, 4)),
     second |-> IntOf(SubSeq(TimeCode(name), 5, 6))]

\* The dictionary the function returns on success.
MakeRecord(name, dt, pad) ==
    [filename |-> name,
     date     |-> <<dt.year, dt.month, dt.day>>,
     time     |-> <<dt.hour, dt.minute, dt.second>>,
     datetime |-> dt,
     date_str |-> StrftimeDate(dt, pad),
     time_str |-> StrftimeTime(dt)]

\* No except clause: the ValueError leaves the function.
OnValueErrorUncaught(name) == [ret |-> None, out |-> <<>>, raised |-> TRUE]

\* The except clause: print the diagnostic, return None.
OnValueError(name) ==
    [ret |-> None, out |-> <<[line |-> "error_parsing", filename |-> name]>>,
     raised |-> FALSE]

\* The whole call: what it returns, what it prints, whether an exception
\* leaves it.
extract_datetime_from_filename(name, pad) ==
    IF ~ReMatch(name)
    THEN [ret |-> None, out |-> <<>>, raised |-> FALSE]
    ELSE LET dt == DecodedFields(name) IN
         IF DatetimeRaises(dt.year, dt.month, dt.day, dt.hour, dt.minute, dt.second)
         THEN OnValueError(name)
         ELSE [ret |-> MakeRecord(name, dt, pad), out |-> <<>>, raised |-> FALSE]

----------------------------------------------------------------------------
(* Dictionaries (defaultdict): the keys in insertion order, and the value  *)
(* of each key.                                                            *)

EmptyDict == [keys |-> <<>>, val |-> <<>>]

HasKey(d, k) == k \in DOMAIN d.val

\* d.get(k, default): no key is inserted.
DictGet(d, k, default) == IF HasKey(d, k) THEN d.val[k] ELSE default

\* d[k] = 1 in place of d[k] += 1.
DictAssignOne(d, k) ==
    IF HasKey(d, k)
    THEN [d EXCEPT !.val[k] = 1]
    ELSE [keys |-> Append(d.keys, k), val |-> d.val @@ (k :> 1)]

\* d[k] += 1 on a defaultdict(int): a missing key is inserted with 0 first.
DictIncrement(d, k) ==
    IF HasKey(d, k)
    THEN [d EXCEPT !.val[k] = @ + 1]
    ELSE [keys |-> Append(d.keys, k), val |-> d.val @@ (k :> 1)]

\* max(d, key=d.get) and min(d, key=d.get): the first key, in iteration
\* order, whose value no other key's value exceeds (resp. is below).
RECURSIVE FirstBest(_, _, _, _)
FirstBest(d, ks, best, wantMax) ==
    IF ks = <<>> THEN best
    ELSE LET k == Head(ks)
             better == IF wantMax THEN d.val[k] > d.val[best]
                       ELSE d.val[k] < d.val[best]
         IN FirstBest(d, Tail(ks), IF better THEN k ELSE best, wantMax)

DictMaxKey(d) == FirstBest(d, Tail(d.keys), Head(d.keys), TRUE)
DictMinKey(d) == FirstBest(d, Tail(d.keys), Head(d.keys), FALSE)

\* sorted(...) of a collection of small integers.
RECURSIVE SortedInts(_)
SortedInts(S) ==
    IF S = {} THEN <<>>
    ELSE LET m == CHOOSE x \in S : \A y \in S : x <= y
         IN <<m>> \o SortedInts(S \ {m})

----------------------------------------------------------------------------
(* analyze_by_weekday_and_time                                             *)

weekday_names ==
    <<"Monday", "Tuesday", "Wednesday", "Thursday", "Friday", "Saturday", "Sunday">>

\* The loop body for one record.
AnalyzeItem(acc, item) ==
    LET weekday == Weekday(item.datetime)
        hour == item.datetime.hour
        hours == DictGet(acc.weekday_hours, weekday, EmptyDict)
        inner == DictIncrement(hours, hour)
    IN [weekday_counts |-> DictIncrement(acc.weekday_counts, weekday),
        weekday_hours |->
            IF HasKey(acc.weekday_hours, weekday)
            THEN [acc.weekday_hours EXCEPT !.val[weekday] = inner]
            ELSE [keys |-> Append(acc.weekday_hours.keys, weekday),
                  val |-> acc.weekday_hours.val @@ (weekday :> inner)]]

\* The loop over datetime_list, from the two empty defaultdicts.
RECURSIVE analyze_by_weekday_and_time(_)
analyze_by_weekday_and_time(datetime_list) ==
    IF datetime_list = <<>>
    THEN [weekday_counts |-> EmptyDict, weekday_hours |-> EmptyDict]
    ELSE AnalyzeItem(
             analyze_by_weekday_and_time(SubSeq(datetime_list, 1, Len(datetime_list) - 1)),
             datetime_list[Len(datetime_list)])

\* hourly_counts of print_analysis_summary and visualize_hourly_distribution.
RECURSIVE HourlyCounts(_)
HourlyCounts(datetime_list) ==
    IF datetime_list = <<>> THEN EmptyDict
    ELSE DictIncrement(
             HourlyCounts(SubSeq(datetime_list, 1, Len(datetime_list) - 1)),
             datetime_list[Len(datetime_list)].datetime.hour)

----------------------------------------------------------------------------
(* read_images_from_folder                                                 *)

\* os.listdir(folder_path): the names, in an order the OS chooses.
Listings(S) ==
    { s \in [1..Cardinality(S) -> S] :
        \A i, j \in 1..Cardinality(S) : i # j => s[i] # s[j] }

\* sorted(...): ascending by <, equal elements in their original order.
RECURSIVE InsertSorted(_, _)
InsertSorted(x, s) ==
    IF s = <<>> THEN <<x>>
    ELSE IF StrLess(x, Head(s)) THEN <<x>> \o s
    ELSE <<Head(s)>> \o InsertSorted(x, Tail(s))

\* The listing used as the OS gave it.
Unsorted(s) == s

RECURSIVE Sorted(_)
Sorted(s) ==
    IF s = <<>> THEN <<>>
    ELSE InsertSorted(s[Len(s)], Sorted(SubSeq(s, 1, Len(s) - 1)))

\* os.path.isdir(os.path.join(folder_path, name))
IsDir(name) == \E e \in entries : e.name = name /\ e.isdir

----------------------------------------------------------------------------
(* The file system and the console, as the script sees them.               *)

\* An output file that does not exist.
Absent == [absent |-> TRUE]

\* The four files the main block writes into output_dir.
OutputNames ==
    {"image_datetime.csv", "weekday_distribution.png",
     "weekday_hourly_heatmap.png", "hourly_distribution.png"}

NoPrev == [pc |-> "none", results |-> <<>>, outfiles |-> [n \in OutputNames |-> Absent]]

----------------------------------------------------------------------------
(* print_results and print_analysis_summary: the lines they print. Rules   *)
(* and blank lines carry no data and are left out.                         *)

RECURSIVE SeqMin(_)
SeqMin(s) ==
    IF Len(s) = 1 THEN s[1]
    ELSE LET m == SeqMin(Tail(s)) IN IF StrLess(m, s[1]) THEN m ELSE s[1]

RECURSIVE SeqMax(_)
SeqMax(s) ==
    IF Len(s) = 1 THEN s[1]
    ELSE LET m == SeqMax(Tail(s)) IN IF StrLess(s[1], m) THEN m ELSE s[1]

print_results(datetime_list) ==
    IF datetime_list = <<>>
    THEN <<[line |-> "no_images"]>>
    ELSE <<[line |-> "found", count |-> Len(datetime_list)],
           [line |-> "table_header"]>>
         \o [i \in 1..Len(datetime_list) |->
                [line |-> "table_row",
                 filename |-> datetime_list[i].filename,
                 date_str |-> datetime_list[i].date_str,
                 time_str |-> datetime_list[i].time_str]]
         \o <<[line |-> "summary_statistics",
               total |-> Len(datetime_list),
               date_min |-> SeqMin([i \in 1..Len(datetime_list) |-> datetime_list[i].date]),
               date_max |-> SeqMax([i \in 1..Len(datetime_list) |-> datetime_list[i].date]),
               time_min |-> SeqMin([i \in 1..Len(datetime_list) |-> datetime_list[i].time]),
               time_max |-> SeqMax([i \in 1..Len(datetime_list) |-> datetime_list[i].time])]>>

\* Section 1: one line per weekday, a missing weekday counted as 0.
WeekdayLines(weekday_counts) ==
    [weekday \in 1..7 |->
        [line |-> "weekday_count",
         weekday |-> weekday - 1,
         name |-> weekday_names[weekday],
         count |-> DictGet(weekday_counts, weekday - 1, 0),
         bar |-> DictGet(weekday_counts, weekday - 1, 0)]]

\* Section 2: a line for each weekday that has hours.
RECURSIVE PeakLines(_, _)
PeakLines(weekday_hours, weekday) ==
    IF weekday > 6 THEN <<>>
    ELSE LET hours == DictGet(weekday_hours, weekday, EmptyDict)
             this == IF hours.keys = <<>> THEN <<>>
                     ELSE <<[line |-> "peak_hour",
                             weekday |-> weekday,
                             peak_hour |-> DictMaxKey(hours),
                             peak_count |-> hours.val[DictMaxKey(hours)],
                             active |-> SortedInts({h \in DOMAIN hours.val : hours.val[h] > 0})]>>
         IN this \o PeakLines(weekday_hours, weekday + 1)

\* The busiest and the quietest weekday: max and min over weekday_counts.
BusiestQuietestLines(weekday_counts) ==
    LET busiest_day == DictMaxKey(weekday_counts)
        quietest_day == DictMinKey(weekday_counts)
    IN <<[line |-> "busiest_weekday", weekday |-> busiest_day,
          count |-> weekday_counts.val[busiest_day]],
         [line |-> "quietest_weekday", weekday |-> quietest_day,
          count |-> weekday_counts.val[quietest_day]]>>

\* Section 3: printed only if some hour has a count.
OverallLines(datetime_list, weekday_counts) ==
    LET hourly_counts == HourlyCounts(datetime_list) IN
    IF hourly_counts.keys = <<>> THEN <<>>
    ELSE LET peak_hour == DictMaxKey(hourly_counts)
             active == SortedInts({h \in DOMAIN hourly_counts.val : hourly_counts.val[h] > 0})
         IN <<[line |-> "total_images", total |-> Len(datetime_list)],
              [line |-> "busiest_hour", peak_hour |-> peak_hour,
               peak_count |-> hourly_counts.val[peak_hour]],
              [line |-> "hours_with_activity", active |-> active],
              [line |-> "active_hours", count |-> Len(active)]>>
            \o BusiestQuietestLines(weekday_counts)

print_analysis_summary(datetime_list) ==
    LET analysis == analyze_by_weekday_and_time(datetime_list) IN
    <<[line |-> "analysis_title"]>>
        \o WeekdayLines(analysis.weekday_counts)
        \o PeakLines(analysis.weekday_hours, 0)
        \o OverallLines(datetime_list, analysis.weekday_counts)

----------------------------------------------------------------------------
(* The CSV export and the three charts.                                    *)

fieldnames == <<"filename", "date", "time", "datetime">>

\* The dictionary writer.writerow is given for one record.
CsvRow(item, pad) ==
    [filename |-> item.filename,
     date |-> item.date_str,
     time |-> item.time_str,
     datetime |-> StrftimeDatetime(item.datetime, pad)]

\* What the with block writes: the header, then the first n rows.
CsvWritten(datetime_list, n, pad) ==
    [header |-> fieldnames,
     rows |-> [i \in 1..n |-> CsvRow(datetime_list[i], pad)]]

\* open(csv_path, 'a'): the new rows follow the old content.
OpenForAppending(old, new) ==
    IF "rows" \in DOMAIN old
    THEN [header |-> old.header, rows |-> old.rows \o new.rows]
    ELSE new

\* open(csv_path, 'w'): the old content is dropped.
OpenForWriting(old, new) == new

\* counts of visualize_weekday_distribution: one per weekday 0..6.
visualize_weekday_distribution(datetime_list) ==
    LET weekday_counts == analyze_by_weekday_and_time(datetime_list).weekday_counts
    IN [chart |-> "bar",
        data |-> [i \in 0..6 |-> DictGet(weekday_counts, i, 0)]]

\* data of visualize_time_distribution_by_weekday: 7 x 24.
visualize_time_distribution_by_weekday(datetime_list) ==
    LET weekday_hours == analyze_by_weekday_and_time(datetime_list).weekday_hours
    IN [chart |-> "heatmap",
        data |-> [weekday \in 0..6 |-> [hour \in 0..23 |->
                    DictGet(DictGet(weekday_hours, weekday, EmptyDict), hour, 0)]]]

\* counts of visualize_hourly_distribution: one per hour 0..23.
visualize_hourly_distribution(datetime_list) ==
    [chart |-> "line",
     data |-> [h \in 0..23 |-> DictGet(HourlyCounts(datetime_list), h, 0)]]

\* A file a failed write left incomplete.
Partial == [partial |-> TRUE]

----------------------------------------------------------------------------
(* A harness that calls extract_datetime_from_filename on one filename.    *)

\* Filenames are put together from parts: a prefix, a date code (year,
\* month, day), a separator, a time code (hour, minute, second), a suffix.
\* Each part has well-formed and malformed choices.
PrefixParts ==
    { PatternPrefix,                                  \* ann-img_
      <<65, 110, 110, 45, 105, 109, 103, 95>>,        \* Ann-img_
      <<120, 97, 110, 110, 45, 105, 109, 103, 95>> }  \* xann-img_

YearParts ==
    { <<48, 48, 48, 48>>, <<48, 48, 48, 53>>, <<49, 57, 48, 48>>,  \* 0000 0005 1900
      <<50, 48, 50, 51>>, <<50, 48, 50, 52>>,                      \* 2023 2024
      <<1634, 1632, 1634, 1636>>,                                  \* 2024, Arabic-Indic
      <<50, 48, 120, 52>> }                                        \* 20x4

MonthParts ==
    { <<48, 48>>, <<48, 50>>, <<48, 52>>, <<49, 50>>, <<49, 51>> }  \* 00 02 04 12 13

DayParts ==
    { <<48, 48>>, <<48, 49>>, <<50, 56>>, <<50, 57>>,               \* 00 01 28 29
      <<51, 48>>, <<51, 49>>, <<51, 50>> }                          \* 30 31 32

SeparatorParts == { Hyphen, <<95>> }                                \* - _

HourParts == { <<48, 48>>, <<50, 51>>, <<50, 52>> }                 \* 00 23 24

MinuteParts == { <<48, 48>>, <<53, 57>>, <<54, 48>> }               \* 00 59 60

SecondParts == { <<48, 55>>, <<54, 48>>, <<53>> }                   \* 07 60 5

SuffixParts == { <<>>, <<55>>, <<95, 120, 46, 106, 112, 103>> }     \* "" 7 _x.jpg

ParserInputs ==
    { p \o y \o m \o d \o sep \o h \o mi \o s \o suf :
        p \in PrefixParts, y \in YearParts, m \in MonthParts, d \in DayParts,
        sep \in SeparatorParts, h \in HourParts, mi \in MinuteParts,
        s \in SecondParts, suf \in SuffixParts }

ParserInit ==
    /\ pad_year \in BOOLEAN
    /\ path_kind = "dir"
    /\ entries = {}
    /\ outfiles = [n \in OutputNames |-> Absent]
    /\ pc = "call"
    /\ files = <<>>
    /\ filename \in ParserInputs
    /\ datetime_info = None
    /\ results = <<>>
    /\ stdout = <<>>
    /\ run = 1
    /\ prev = NoPrev

\* One call of extract_datetime_from_filename(filename).
ExtractCall ==
    /\ pc = "call"
    /\ LET r == extract_datetime_from_filename(filename, pad_year) IN
        /\ datetime_info' = r.ret
        /\ stdout' = stdout \o r.out
        /\ pc' = IF r.raised THEN "raised" ELSE "returned"
    /\ UNCHANGED <<pad_year, path_kind, entries, outfiles, files, filename,
                   results, run, prev>>

ParserNext == ExtractCall

ParserSpec == ParserInit /\ [][ParserNext]_vars

----------------------------------------------------------------------------
(* The script: the main block, run on a directory; then run again.         *)

\* Names a directory may hold: well-formed ones on several weekdays and
\* hours, one of a year below 1000, one with month 13, one off-pattern.
PoolNames ==
    { PatternPrefix \o <<50,48,50,52,48,49,49,53, 45, 49,52,51,48,53,50, 95,120,46,106,112,103>>,  \* ann-img_20240115-143052_x.jpg
      PatternPrefix \o <<50,48,50,52,48,49,49,53, 45, 48,57,48,48,48,48, 46,106,112,103>>,         \* ann-img_20240115-090000.jpg
      PatternPrefix \o <<50,48,50,52,48,49,49,54, 45, 49,52,51,48,53,50, 46,106,112,103>>,         \* ann-img_20240116-143052.jpg
      PatternPrefix \o <<48,48,48,53,48,49,48,50, 45, 48,51,48,52,48,53, 46,106,112,103>>,         \* ann-img_00050102-030405.jpg
      PatternPrefix \o <<50,48,50,52,49,51,48,49, 45, 48,48,48,48,48,48>>,                         \* ann-img_20241301-000000
      <<110,111,116,101,115,46,116,120,116>> }                                                     \* notes.txt

\* The directories of the model: up to MaxFiles entries, each a file or a
\* sub-directory.
Directories ==
    { {[name |-> n, isdir |-> n \in D] : n \in S} :
        <<S, D>> \in { sd \in (SUBSET PoolNames) \X (SUBSET PoolNames) :
                         Cardinality(sd[1]) <= MaxFiles /\ sd[2] \subseteq sd[1] } }

Init ==
    /\ pad_year \in BOOLEAN
    /\ path_kind \in {"missing", "file", "dir"}
    /\ entries \in (IF path_kind = "dir" THEN Directories ELSE {{}})
    /\ outfiles = [n \in OutputNames |-> Absent]
    /\ pc = "start"
    /\ files = <<>>
    /\ filename = <<>>
    /\ datetime_info = None
    /\ results = <<>>
    /\ stdout = <<>>
    /\ run = 1
    /\ prev = NoPrev

\* The reader without its check of the path.
FolderNotChecked == TRUE

\* os.path.isdir(folder_path)
FolderExists == path_kind = "dir"

\* The main block without its test of results.
HasResultsNotTested(datetime_list) == TRUE

\* if results: in the main block
HasResults(datetime_list) == datetime_list # <<>>

\* A write wrapped in try/except: the run goes on with the next step.
AfterFailureCaught(next) == next

\* Where the run is after a write raised: nothing in the main block catches
\* it, so the process ends there. (next is the step that would have followed.)
AfterFailure(next) == "crashed"

\* read_images_from_folder, the path is no directory.
ReadFolderMissing ==
    /\ pc = "start"
    /\ ~FolderExists
    /\ stdout' = Append(stdout, [line |-> "error_folder"])
    /\ results' = <<>>
    /\ pc' = "print_results"
    /\ UNCHANGED <<pad_year, path_kind, entries, outfiles, files, filename,
                   datetime_info, run, prev>>

\* files = sorted(os.listdir(folder_path))
ReadFolderList ==
    /\ pc = "start"
    /\ FolderExists
    /\ \E listing \in Listings({e.name : e \in entries}) :
           files' = Sorted(listing)
    /\ results' = <<>>
    /\ pc' = "read_loop"
    /\ UNCHANGED <<pad_year, path_kind, entries, outfiles, filename,
                   datetime_info, stdout, run, prev>>

\* One iteration of the loop over files.
ReadEntry ==
    /\ pc = "read_loop"
    /\ files # <<>>
    /\ filename' = Head(files)
    /\ files' = Tail(files)
    /\ IF IsDir(Head(files))
       THEN UNCHANGED <<datetime_info, results, stdout, pc>>
       ELSE LET r == extract_datetime_from_filename(Head(files), pad_year) IN
            /\ datetime_info' = r.ret
            /\ stdout' = stdout \o r.out
            /\ results' = IF r.ret # None /\ ~r.raised
                          THEN Append(results, r.ret) ELSE results
            /\ pc' = IF r.raised THEN "crashed" ELSE pc
    /\ UNCHANGED <<pad_year, path_kind, entries, outfiles, run, prev>>

\* return results
ReadReturn ==
    /\ pc = "read_loop"
    /\ files = <<>>
    /\ pc' = "print_results"
    /\ UNCHANGED <<pad_year, path_kind, entries, outfiles, files, filename,
                   datetime_info, results, stdout, run, prev>>

\* print_results(results), then the test of results.
PrintResults ==
    /\ pc = "print_results"
    /\ stdout' = stdout \o print_results(results)
    /\ pc' = IF HasResults(results) THEN "print_analysis" ELSE "done"
    /\ UNCHANGED <<pad_year, path_kind, entries, outfiles, files, filename,
                   datetime_info, results, run, prev>>

PrintAnalysisSummary ==
    /\ pc = "print_analysis"
    /\ stdout' = stdout \o print_analysis_summary(results)
    /\ pc' = "write_csv"
    /\ UNCHANGED <<pad_year, path_kind, entries, outfiles, files, filename,
                   datetime_info, results, run, prev>>

\* The with block, completed.
WriteCsv ==
    /\ pc = "write_csv"
    /\ outfiles' = [outfiles EXCEPT !["image_datetime.csv"] =
                       OpenForWriting(@, CsvWritten(results, Len(results), pad_year))]
    /\ stdout' = stdout \o <<[line |-> "results_saved"], [line |-> "generating"]>>
    /\ pc' = "chart_weekday"
    /\ UNCHANGED <<pad_year, path_kind, entries, files, filename,
                   datetime_info, results, run, prev>>

\* open() raises: the file is as it was.
WriteCsvOpenFails ==
    /\ pc = "write_csv"
    /\ pc' = AfterFailure("chart_weekday")
    /\ UNCHANGED <<pad_year, path_kind, entries, outfiles, files, filename,
                   datetime_info, results, stdout, run, prev>>

\* A write raises after the header and some of the rows.
WriteCsvFails ==
    /\ pc = "write_csv"
    /\ \E n \in 0..(Len(results) - 1) :
           outfiles' = [outfiles EXCEPT !["image_datetime.csv"] =
                           OpenForWriting(@, CsvWritten(results, n, pad_year))]
    /\ pc' = AfterFailure("chart_weekday")
    /\ UNCHANGED <<pad_year, path_kind, entries, files, filename,
                   datetime_info, results, stdout, run, prev>>

\* plt.savefig(output_path) and the line printed after it.
SaveFigure(at, name, chart, next) ==
    /\ pc = at
    /\ outfiles' = [outfiles EXCEPT ![name] = chart]
    /\ stdout' = Append(stdout, [line |-> "chart_saved", path |-> name])
    /\ pc' = next
    /\ UNCHANGED <<pad_year, path_kind, entries, files, filename,
                   datetime_info, results, run, prev>>

\* plt.savefig raises: the file is as it was, or incomplete.
SaveFigureFails(at, name, next) ==
    /\ pc = at
    /\ \E left \in {outfiles[name], Partial} :
           outfiles' = [outfiles EXCEPT ![name] = left]
    /\ pc' = AfterFailure(next)
    /\ UNCHANGED <<pad_year, path_kind, entries, files, filename,
                   datetime_info, results, stdout, run, prev>>

SaveWeekdayChart ==
    SaveFigure("chart_weekday", "weekday_distribution.png",
               visualize_weekday_distribution(results), "chart_heatmap")

SaveWeekdayChartFails ==
    SaveFigureFails("chart_weekday", "weekday_distribution.png", "chart_heatmap")

SaveHeatmap ==
    SaveFigure("chart_heatmap", "weekday_hourly_heatmap.png",
               visualize_time_distribution_by_weekday(results), "chart_hourly")

SaveHeatmapFails ==
    SaveFigureFails("chart_heatmap", "weekday_hourly_heatmap.png", "chart_hourly")

SaveHourlyChart ==
    SaveFigure("chart_hourly", "hourly_distribution.png",
               visualize_hourly_distribution(results), "all_generated")

SaveHourlyChartFails ==
    SaveFigureFails("chart_hourly", "hourly_distribution.png", "all_generated")

\* print("All visualizations have been generated!") and the three paths.
PrintAllGenerated ==
    /\ pc = "all_generated"
    /\ stdout' = Append(stdout, [line |-> "all_generated"])
    /\ pc' = "done"
    /\ UNCHANGED <<pad_year, path_kind, entries, outfiles, files, filename,
                   datetime_info, results, run, prev>>

\* The script is started again on the same directory: a new process, with
\* the files the last run left in output_dir.
RunAgain ==
    /\ pc \in {"done", "crashed"}
    /\ run < MaxRuns
    /\ prev' = [pc |-> pc, results |-> results, outfiles |-> outfiles]
    /\ run' = run + 1
    /\ pc' = "start"
    /\ files' = <<>>
    /\ filename' = <<>>
    /\ datetime_info' = None
    /\ results' = <<>>
    /\ stdout' = <<>>
    /\ UNCHANGED <<pad_year, path_kind, entries, outfiles>>

Next ==
    \/ ReadFolderMissing
    \/ ReadFolderList
    \/ ReadEntry
    \/ ReadReturn
    \/ PrintResults
    \/ PrintAnalysisSummary
    \/ WriteCsv
    \/ WriteCsvOpenFails
    \/ WriteCsvFails
    \/ SaveWeekdayChart
    \/ SaveWeekdayChartFails
    \/ SaveHeatmap
    \/ SaveHeatmapFails
    \/ SaveHourlyChart
    \/ SaveHourlyChartFails
    \/ PrintAllGenerated
    \/ RunAgain

Spec == Init /\ [][Next]_vars

----------------------------------------------------------------------------
(* The filename contract, stated on the characters of the name.            *)

\* The name begins with ann-img_, 8 digits, '-', 6 digits.
HasTimestampPrefix(name) ==
    /\ Len(name) >= 23
    /\ \A i \in 1..8 : name[i] = PatternPrefix[i]
    /\ \A i \in (9..16) \cup (18..23) : IsDigit(name[i])
    /\ name[17] = 45

\* The number the digits at positions from..to spell.
NumberAt(name, from, to) == IntOf(SubSeq(name, from, to))

LengthOfMonth(year, month) ==
    CASE month \in {1, 3, 5, 7, 8, 10, 12} -> 31
      [] month \in {4, 6, 9, 11} -> 30
      [] OTHER -> IF year % 400 = 0 \/ (year % 4 = 0 /\ year % 100 # 0)
                  THEN 29 ELSE 28

\* YYYY MM DD / HH MM SS name a moment that exists.
IsValidTimestamp(name) ==
    /\ NumberAt(name, 9, 12) >= 1
    /\ NumberAt(name, 13, 14) \in 1..12
    /\ NumberAt(name, 15, 16) >= 1
    /\ NumberAt(name, 15, 16) <= LengthOfMonth(NumberAt(name, 9, 12), NumberAt(name, 13, 14))
    /\ NumberAt(name, 18, 19) \in 0..23
    /\ NumberAt(name, 20, 21) \in 0..59
    /\ NumberAt(name, 22, 23) \in 0..59

\* C1: extract_datetime_from_filename returns a record exactly for the names
\* that begin with ann-img_, 8 digits, '-', 6 digits (whatever follows) whose
\* digits are a valid date and time; for every other name it returns None.
C1_RecordIffValidName ==
    pc = "returned" =>
        /\ (datetime_info # None) <=>
               (HasTimestampPrefix(filename) /\ IsValidTimestamp(filename))
        /\ datetime_info # None => datetime_info.filename = filename

\* A leap-day name with trailing characters has been parsed into a record.
C1_Witness ==
    /\ pc = "returned"
    /\ datetime_info # None
    /\ Len(filename) > 23
    /\ datetime_info.datetime.month = 2
    /\ datetime_info.datetime.day = 29

\* C2: the parser never lets a failure out, and it prints one diagnostic,
\* naming the file, exactly when the name has the pattern but its digits are
\* no valid date and time; otherwise it prints nothing.
C2_DiagnosticIffInvalidValue ==
    /\ pc # "raised"
    /\ pc = "returned" =>
           stdout = IF HasTimestampPrefix(filename) /\ ~IsValidTimestamp(filename)
                    THEN <<[line |-> "error_parsing", filename |-> filename]>>
                    ELSE <<>>

\* A name with month 13 has been rejected with a diagnostic.
C2_Witness ==
    /\ pc = "returned"
    /\ HasTimestampPrefix(filename)
    /\ NumberAt(filename, 13, 14) = 13
    /\ datetime_info = None
    /\ Len(stdout) = 1

----------------------------------------------------------------------------
(* The folder reader.                                                      *)

\* read_images_from_folder has returned in this run.
ReadDone == pc \notin {"start", "read_loop"}

\* The names of the entries that are files the parser accepts.
AcceptedNames ==
    { e.name : e \in { x \in entries :
        ~x.isdir /\ extract_datetime_from_filename(x.name, pad_year).ret # None } }

\* C3: for an existing directory the reader returns one record per entry
\* that is no directory and whose name the parser accepts, no other, none
\* twice, in ascending order of filename whatever order the listing had.
C3_OneRecordPerAcceptedFileSorted ==
    (path_kind = "dir" /\ ReadDone) =>
        /\ {results[i].filename : i \in 1..Len(results)} = AcceptedNames
        /\ Len(results) = Cardinality(AcceptedNames)
        /\ \A i, j \in 1..Len(results) :
               i < j => StrLess(results[i].filename, results[j].filename)

\* Two files were read into records and a sub-directory with a valid name
\* was skipped.
C3_Witness ==
    /\ path_kind = "dir"
    /\ pc = "print_results"
    /\ Len(results) = 2
    /\ \E e \in entries :
           e.isdir /\ extract_datetime_from_filename(e.name, pad_year).ret # None

\* C4: given a path that is no existing directory, the reader prints an
\* error, returns no record and applies the parser to nothing; nothing is
\* raised.
C4_MissingFolderYieldsEmpty ==
    (path_kind # "dir" /\ pc # "start") =>
        /\ results = <<>>
        /\ stdout # <<>>
        /\ stdout[1] = [line |-> "error_folder"]
        /\ \A i \in 1..Len(stdout) : stdout[i].line # "error_parsing"
        /\ filename = <<>>
        /\ datetime_info = None
        /\ pc \in {"print_results", "done"}

\* A run on a path that names a file, not a directory, has ended.
C4_Witness ==
    /\ path_kind = "file"
    /\ pc = "done"
    /\ results = <<>>

----------------------------------------------------------------------------
(* The run with no record.                                                 *)

ReportLines ==
    {"found", "table_header", "table_row", "summary_statistics",
     "analysis_title", "weekday_count", "peak_hour", "total_images",
     "busiest_hour", "hours_with_activity", "active_hours",
     "busiest_weekday", "quietest_weekday", "results_saved", "generating",
     "chart_saved", "all_generated"}

\* C5: a run whose record set is empty prints the no-data message, prints no
\* table, statistics or analysis, writes none of the four output files and
\* ends normally; the outputs are attempted only with at least one record.
C5_EmptyRunWritesNothing ==
    /\ (results = <<>> /\ pc \notin {"start", "read_loop", "print_results"}) =>
           /\ pc = "done"
           /\ stdout[Len(stdout)] = [line |-> "no_images"]
           /\ \A i \in 1..Len(stdout) : stdout[i].line \notin ReportLines
           /\ outfiles = prev.outfiles
    /\ pc \in {"print_analysis", "write_csv", "chart_weekday", "chart_heatmap",
               "chart_hourly", "all_generated", "crashed"} => results # <<>>

\* A run on a directory that holds entries, none of them a validly named
\* file, has ended.
C5_Witness ==
    /\ pc = "done"
    /\ path_kind = "dir"
    /\ entries # {}
    /\ results = <<>>
    /\ stdout # <<>>

----------------------------------------------------------------------------
(* The aggregator.                                                         *)

RECURSIVE DictSum(_, _)
DictSum(d, ks) ==
    IF ks = <<>> THEN 0 ELSE d.val[Head(ks)] + DictSum(d, Tail(ks))

RECURSIVE HoursSum(_, _)
HoursSum(weekday_hours, ks) ==
    IF ks = <<>> THEN 0
    ELSE LET hours == weekday_hours.val[Head(ks)]
         IN DictSum(hours, hours.keys) + HoursSum(weekday_hours, Tail(ks))

\* C6: after each record the aggregator has processed, the weekday counts sum
\* to the number of records processed, so do the (weekday, hour) counts, every
\* weekday key is in 0..6 and every hour key in 0..23.
C6_CountsSumToRecords ==
    \A k \in 0..Len(results) :
        LET analysis == analyze_by_weekday_and_time(SubSeq(results, 1, k))
            weekday_counts == analysis.weekday_counts
            weekday_hours == analysis.weekday_hours
        IN /\ DictSum(weekday_counts, weekday_counts.keys) = k
           /\ HoursSum(weekday_hours, weekday_hours.keys) = k
           /\ DOMAIN weekday_counts.val \subseteq 0..6
           /\ DOMAIN weekday_hours.val \subseteq 0..6
           /\ \A d \in DOMAIN weekday_hours.val :
                  DOMAIN weekday_hours.val[d].val \subseteq 0..23

\* The analysis of a run was printed with two records on one weekday.
C6_Witness ==
    /\ pc = "done"
    /\ \E i \in 1..Len(stdout) :
           stdout[i].line = "weekday_count" /\ stdout[i].count >= 2

----------------------------------------------------------------------------
(* The CSV export.                                                         *)

\* The CSV of this run has been written in full.
CsvDone ==
    /\ results # <<>>
    /\ pc \in {"chart_weekday", "chart_heatmap", "chart_hourly", "all_generated", "done"}

\* Text of the shape YYYY-MM-DD HH:MM:SS.
IsTimestampText(s) ==
    /\ Len(s) = 19
    /\ s[5] = 45 /\ s[8] = 45 /\ s[11] = 32 /\ s[14] = 58 /\ s[17] = 58
    /\ \A i \in (1..19) \ {5, 8, 11, 14, 17} : s[i] \in AsciiDigits

\* The rows are the records, in order, and the datetime column is the date
\* column, a space, the time column.
CsvRowsCarryRecords ==
    CsvDone =>
        LET csv == outfiles["image_datetime.csv"] IN
        /\ csv.header = <<"filename", "date", "time", "datetime">>
        /\ Len(csv.rows) = Len(results)
        /\ \A i \in 1..Len(results) :
               /\ csv.rows[i].filename = results[i].filename
               /\ csv.rows[i].date = results[i].date_str
               /\ csv.rows[i].time = results[i].time_str
               /\ csv.rows[i].datetime =
                      results[i].date_str \o <<32>> \o results[i].time_str
        /\ \A i, j \in 1..Len(csv.rows) :
               i < j => StrLess(csv.rows[i].filename, csv.rows[j].filename)

\* C7: the CSV of a run with records is the header filename,date,time,datetime
\* and one row per record in the order of the record set; date and time are
\* the record's date_str and time_str, and datetime is date_str, a space,
\* time_str, of the format YYYY-MM-DD HH:MM:SS.
C7_CsvRowsInTimestampFormat ==
    /\ CsvRowsCarryRecords
    /\ CsvDone =>
           \A i \in 1..Len(results) :
               IsTimestampText(outfiles["image_datetime.csv"].rows[i].datetime)

----------------------------------------------------------------------------
(* Running the script twice.                                               *)

\* C8: a second run on the unchanged directory ends with the record set, the
\* aggregate counts and the CSV (and charts) the first run ended with.
C8_SecondRunSameResults ==
    (pc = "done" /\ run > 1 /\ prev.pc = "done") =>
        /\ results = prev.results
        /\ analyze_by_weekday_and_time(results) = analyze_by_weekday_and_time(prev.results)
        /\ outfiles["image_datetime.csv"] = prev.outfiles["image_datetime.csv"]
        /\ outfiles = prev.outfiles

\* Two runs have completed on a directory with at least two records.
C8_Witness ==
    /\ pc = "done"
    /\ run = 2
    /\ prev.pc = "done"
    /\ Len(results) >= 2
    /\ outfiles["image_datetime.csv"] # Absent

----------------------------------------------------------------------------
(* The busiest and the quietest weekday.                                   *)

\* The number of records on weekday d.
CountOn(d) ==
    Cardinality({i \in 1..Len(results) : Weekday(results[i].datetime) = d})

\* The weekday reported busiest has a count no weekday exceeds.
BusiestIsMaximal ==
    \A i \in 1..Len(stdout) :
        stdout[i].line = "busiest_weekday" =>
            /\ stdout[i].count = CountOn(stdout[i].weekday)
            /\ \A d \in 0..6 : stdout[i].count >= CountOn(d)

\* C9: over the seven weekdays, one without records counting as zero, the
\* weekday reported busiest has a count >= every weekday's and the weekday
\* reported quietest has a count <= every weekday's.
C9_BusiestQuietestOverSevenWeekdays ==
    /\ BusiestIsMaximal
    /\ \A i \in 1..Len(stdout) :
           stdout[i].line = "quietest_weekday" =>
               /\ stdout[i].count = CountOn(stdout[i].weekday)
               /\ \A d \in 0..6 : stdout[i].count <= CountOn(d)

----------------------------------------------------------------------------
(* The order of the steps, and a failed write.                             *)

\* The lines that mark a completed step, named by the step's output.
StepLines == {"found", "analysis_title", "results_saved", "chart_saved", "all_generated"}

StepOf(l) ==
    CASE l.line = "found" -> "table"
      [] l.line = "analysis_title" -> "analysis"
      [] l.line = "results_saved" -> "image_datetime.csv"
      [] l.line = "chart_saved" -> l.path
      [] l.line = "all_generated" -> "final"

StepsPrinted(out) ==
    LET marks == SelectSeq(out, LAMBDA l : l.line \in StepLines)
    IN [i \in 1..Len(marks) |-> StepOf(marks[i])]

StepOrder ==
    <<"table", "analysis", "image_datetime.csv", "weekday_distribution.png",
      "weekday_hourly_heatmap.png", "hourly_distribution.png", "final">>

PositionOf(step) == CHOOSE i \in 1..Len(StepOrder) : StepOrder[i] = step

\* The steps completed so far are an initial part of the order, and none is
\* completed before the folder has been read.
StepsInOrder ==
    /\ Len(StepsPrinted(stdout)) <= Len(StepOrder)
    /\ StepsPrinted(stdout) = SubSeq(StepOrder, 1, Len(StepsPrinted(stdout)))
    /\ StepsPrinted(stdout) # <<>> => ReadDone
    /\ pc = "done" /\ results # <<>> => StepsPrinted(stdout) = StepOrder

\* An output file changes only as the next step in the order, after all the
\* steps before it have completed.
WritesAtTheirStep ==
    \A n \in OutputNames :
        outfiles'[n] # outfiles[n] =>
            /\ Len(StepsPrinted(stdout)) = PositionOf(n) - 1
            /\ pc' # "crashed" => Len(StepsPrinted(stdout')) = PositionOf(n)

\* A write that fails ends the run there: nothing is printed, the other files
\* stay as they are; and after it nothing of the run follows.
FailureEndsRun ==
    /\ (pc' = "crashed" /\ pc # "crashed") =>
           /\ stdout' = stdout
           /\ results' = results
           /\ \A n \in OutputNames :
                  outfiles'[n] # outfiles[n] =>
                      PositionOf(n) = Len(StepsPrinted(stdout)) + 1
    /\ pc = "crashed" =>
           /\ outfiles' = outfiles
           /\ pc' = "start"
           /\ stdout' = <<>>

\* C10: with records, the steps run in the order read, table, analysis, CSV,
\* weekday chart, heatmap, hourly chart, final message; no chart is written
\* before the CSV and the final message follows the three charts. A failed
\* write is not caught: the run ends at that step, no later output is
\* written, the final message is not printed, earlier outputs stay.
C10_StepsInOrderFailureEndsRun ==
    []StepsInOrder /\ [][WritesAtTheirStep /\ FailureEndsRun]_vars

\* The heatmap write failed after the CSV and the weekday chart were written.
C10_Witness ==
    /\ pc = "crashed"
    /\ run = 1
    /\ outfiles["image_datetime.csv"] # Absent
    /\ outfiles["weekday_distribution.png"] # Absent
    /\ outfiles["weekday_hourly_heatmap.png"] = Partial
    /\ outfiles["hourly_distribution.png"] = Absent
    /\ Len(StepsPrinted(stdout)) = 4

====
